---- MODULE Spec2Model ----
(***************************************************************************)
(* Model of backend.py: the x402 payment gateway (/api/mint,               *)
(* /api/facilitate) of STUPID402, with the remote ledger (signer sequence  *)
(* numbers, token contract, NFT contract) as the environment.              *)
(***************************************************************************)
EXTENDS Integers, Sequences, FiniteSets, TLC

(***************************************************************************)
(* Text.  A Python str is a sequence of one-character strings.             *)
(***************************************************************************)
\* str.lower() on one character
LowerChar(c) ==
    CASE c = "A" -> "a"
      [] c = "B" -> "b"
      [] c = "C" -> "c"
      [] OTHER -> c

\* str.lower()
Lower(s) == [i \in 1..Len(s) |-> LowerChar(s[i])]

HexChars == {"0", "1", "2", "9", "a", "b", "c", "A", "B", "C"}

DigitVal(c) ==
    CASE c = "0" -> 0
      [] c = "1" -> 1
      [] c = "2" -> 2
      [] c = "9" -> 9
      [] OTHER -> -1

\* int(text) for a text of decimal digits (the pool holds no other numerals)
ParseInt(s) ==
    LET prefix[i \in 0..Len(s)] ==
            IF i = 0 THEN 0 ELSE 10 * prefix[i - 1] + DigitVal(s[i])
    IN prefix[Len(s)]

\* n copies of character c
Rep(c, n) == [i \in 1..n |-> c]

\* s.startswith('0x') / s[2:]
StartsWith0x(s) == Len(s) >= 2 /\ s[1] = "0" /\ s[2] = "x"
Strip0x(s) == IF StartsWith0x(s) THEN SubSeq(s, 3, Len(s)) ELSE s

\* Web3.to_checksum_address: the checksum casing is a function of the
\* lower-case hex digits, so two spellings of one address map to one value.
to_checksum_address(a) == <<"addr", Lower(Strip0x(a))>>

\* Web3.to_bytes(hexstr=...): hex digits are read case-insensitively.
to_bytes(h) == <<"bytes", Lower(Strip0x(h))>>

\* Web3.keccak(text=...).hex(): a digest of the text, taken collision free.
keccak_hex(text) == <<"keccak", text>>

(***************************************************************************)
(* Configuration (lines 27-37).                                            *)
(***************************************************************************)
MINT_PRICE == 1000000
RECIPIENT_ADDRESS == <<"0", "x", "a", "b">>

(***************************************************************************)
(* decode_x402_payment (lines 87-147).  A header is                        *)
(*   [kind |-> "empty"]                     no / empty x-payment           *)
(*   [kind |-> "garbage"]                   base64 or JSON does not parse  *)
(*   [kind |-> "json", data |-> object]     parsed JSON object             *)
(* A JSON object is a function from its keys to values.                    *)
(***************************************************************************)
\* dict.get(k): <<v>> when present, <<>> (None) when absent
Get(obj, k) == IF k \in DOMAIN obj THEN <<obj[k]>> ELSE <<>>

\* variant: only None is refused, '' passes
Truthy_not_none(opt) == opt # <<>>

\* Python truthiness of an optional text: None and '' are falsy
Truthy(opt) == opt # <<>> /\ opt[1] # <<>>

IsNested(payment_data) ==
    /\ "payload" \in DOMAIN payment_data
    /\ "authorization" \in DOMAIN payment_data["payload"]

\* variant: the nested shape looks for the signature inside authorization
ExtractFields_signature_in_authorization(payment_data) ==
    IF IsNested(payment_data)
    THEN LET auth == payment_data["payload"]["authorization"]
         IN [from        |-> Get(auth, "from"),
             to          |-> Get(auth, "to"),
             value       |-> Get(auth, "value"),
             nonce       |-> Get(auth, "nonce"),
             validAfter  |-> Get(auth, "validAfter"),
             validBefore |-> Get(auth, "validBefore"),
             signature   |-> Get(auth, "signature")]
    ELSE [from        |-> Get(payment_data, "from"),
          to          |-> Get(payment_data, "to"),
          value       |-> Get(payment_data, "value"),
          nonce       |-> Get(payment_data, "nonce"),
          validAfter  |-> Get(payment_data, "validAfter"),
          validBefore |-> Get(payment_data, "validBefore"),
          signature   |-> Get(payment_data, "signature")]

\* lines 101-120: the seven optional fields, by payload shape
ExtractFields(payment_data) ==
    IF IsNested(payment_data)
    THEN LET auth == payment_data["payload"]["authorization"]
         IN [from        |-> Get(auth, "from"),
             to          |-> Get(auth, "to"),
             value       |-> Get(auth, "value"),
             nonce       |-> Get(auth, "nonce"),
             validAfter  |-> Get(auth, "validAfter"),
             validBefore |-> Get(auth, "validBefore"),
             signature   |-> Get(payment_data["payload"], "signature")]
    ELSE [from        |-> Get(payment_data, "from"),
          to          |-> Get(payment_data, "to"),
          value       |-> Get(payment_data, "value"),
          nonce       |-> Get(payment_data, "nonce"),
          validAfter  |-> Get(payment_data, "validAfter"),
          validBefore |-> Get(payment_data, "validBefore"),
          signature   |-> Get(payment_data, "signature")]

\* line 123: all([...])
AllPresent(f) ==
    /\ Truthy(f.from) /\ Truthy(f.to) /\ Truthy(f.value) /\ Truthy(f.nonce)
    /\ Truthy(f.validAfter) /\ Truthy(f.validBefore) /\ Truthy(f.signature)

\* line 130: keccak(text=f"{from_addr}{nonce}{valid_before}")
SettlementId(from_addr, nonce, valid_before) ==
    keccak_hex(from_addr \o nonce \o valid_before)

Invalid(err) == [valid |-> FALSE, error |-> err]

\* variant: the amount goes into the digest too
decode_x402_payment_digest_of_amount(x_payment_header) ==
    IF x_payment_header.kind = "empty" THEN Invalid("Empty x-payment")
    ELSE IF x_payment_header.kind = "garbage" THEN Invalid("exception")
    ELSE LET f == ExtractFields(x_payment_header.data)
         IN IF ~AllPresent(f) THEN Invalid("Missing required fields")
            ELSE [valid       |-> TRUE,
                  from        |-> f.from[1],
                  to          |-> f.to[1],
                  value       |-> f.value[1],
                  nonce       |-> f.nonce[1],
                  validAfter  |-> f.validAfter[1],
                  validBefore |-> f.validBefore[1],
                  signature   |-> f.signature[1],
                  txHash      |-> SettlementId(f.from[1], f.nonce[1] \o f.value[1],
                                               f.validBefore[1])]

decode_x402_payment(x_payment_header) ==
    IF x_payment_header.kind = "empty" THEN Invalid("Empty x-payment")
    ELSE IF x_payment_header.kind = "garbage" THEN Invalid("exception")
    ELSE LET f == ExtractFields(x_payment_header.data)
         IN IF ~AllPresent(f) THEN Invalid("Missing required fields")
            ELSE [valid       |-> TRUE,
                  from        |-> f.from[1],
                  to          |-> f.to[1],
                  value       |-> f.value[1],
                  nonce       |-> f.nonce[1],
                  validAfter  |-> f.validAfter[1],
                  validBefore |-> f.validBefore[1],
                  signature   |-> f.signature[1],
                  txHash      |-> SettlementId(f.from[1], f.nonce[1], f.validBefore[1])]

(***************************************************************************)
(* Request inputs.  Tokens are named; TokenOf gives the header a name      *)
(* stands for.                                                             *)
(***************************************************************************)
SigGood == <<"0", "x">> \o Rep("a", 130)
SigShort == <<"0", "x">> \o Rep("a", 4)

Flat(from, to, value, nonce, sig) ==
    [kind |-> "json",
     data |-> [from |-> from, to |-> to, value |-> value, nonce |-> nonce,
               validAfter |-> <<"1">>, validBefore |-> <<"9">>,
               signature |-> sig]]

Nested(from, to, value, nonce, sig) ==
    [kind |-> "json",
     data |-> [payload |->
                 [authorization |->
                    [from |-> from, to |-> to, value |-> value, nonce |-> nonce,
                     validAfter |-> <<"1">>, validBefore |-> <<"9">>],
                  signature |-> sig]]]

PayerA == <<"0", "x", "a", "1">>
PayerB == <<"0", "x", "b", "2">>
Price == <<"1", "0", "0", "0", "0", "0", "0">>
BelowPrice == <<"9", "9", "9", "9", "9", "9">>

\* The seven fields of an authorization.  A field map gives a text to some of
\* them; a key outside its domain is absent from the token, <<>> is the text ''.
Fields7 == {"from", "to", "value", "nonce", "validAfter", "validBefore", "signature"}
AuthKeys == Fields7 \ {"signature"}
Shapes == {"flat", "nested"}

DropKey(fm, k) == [j \in (DOMAIN fm) \ {k} |-> fm[j]]

\* the flat shape: the fields at the top level
FlatToken(fm) == [kind |-> "json", data |-> fm]

\* the nested shape: payload.authorization holds the six fields of the
\* authorization, payload.signature the signature
NestedToken(fm) ==
    LET authorization == [j \in (DOMAIN fm) \cap AuthKeys |-> fm[j]]
    IN [kind |-> "json",
        data |-> [payload |->
                    IF "signature" \in DOMAIN fm
                    THEN [authorization |-> authorization, signature |-> fm["signature"]]
                    ELSE [authorization |-> authorization]]]

Token(shape, fm) == IF shape = "flat" THEN FlatToken(fm) ELSE NestedToken(fm)

\* Tokens with one defect: one of the seven fields is absent or is ''.
Defects == {"absent", "empty"}
BaseFields ==
    [from |-> PayerA, to |-> RECIPIENT_ADDRESS, value |-> Price,
     nonce |-> <<"0", "x", "0", "7">>, validAfter |-> <<"1">>, validBefore |-> <<"9">>,
     signature |-> SigGood]
MalformedName(shape, k, defect) == shape \o "." \o k \o "." \o defect
\* the names MalformedName(shape, k, defect) of all shapes, fields and defects
MalformedNames ==
    {"flat.from.absent", "flat.from.empty",
     "flat.to.absent", "flat.to.empty",
     "flat.value.absent", "flat.value.empty",
     "flat.nonce.absent", "flat.nonce.empty",
     "flat.validAfter.absent", "flat.validAfter.empty",
     "flat.validBefore.absent", "flat.validBefore.empty",
     "flat.signature.absent", "flat.signature.empty",
     "nested.from.absent", "nested.from.empty",
     "nested.to.absent", "nested.to.empty",
     "nested.value.absent", "nested.value.empty",
     "nested.nonce.absent", "nested.nonce.empty",
     "nested.validAfter.absent", "nested.validAfter.empty",
     "nested.validBefore.absent", "nested.validBefore.empty",
     "nested.signature.absent", "nested.signature.empty"}
MalformedToken(name) ==
    LET c == CHOOSE c \in Shapes \X Fields7 \X Defects :
                 MalformedName(c[1], c[2], c[3]) = name
    IN Token(c[1], IF c[3] = "absent" THEN DropKey(BaseFields, c[2])
                   ELSE [BaseFields EXCEPT ![c[2]] = <<>>])

TokenOf(name) ==
    CASE name = "A"       -> Flat(PayerA, RECIPIENT_ADDRESS, Price, <<"0", "x", "0", "1">>, SigGood)
      [] name = "B"       -> Nested(PayerB, <<"0", "x", "A", "B">>, Price, <<"0", "x", "0", "2">>, SigGood)
      [] name = "Low"     -> Flat(PayerA, RECIPIENT_ADDRESS, BelowPrice, <<"0", "x", "0", "9">>, SigGood)
      [] name = "Other"   -> Flat(PayerB, <<"0", "x", "c", "c">>, Price, <<"0", "x", "0", "9">>, SigGood)
      [] name = "BadSig"  -> Flat(PayerA, RECIPIENT_ADDRESS, Price, <<"0", "x", "0", "1">>, SigShort)
      [] name = "NoSig"   -> [kind |-> "json",
                              data |-> [from |-> PayerA, to |-> RECIPIENT_ADDRESS,
                                        value |-> Price, nonce |-> <<"0", "x", "0", "1">>,
                                        validAfter |-> <<"1">>, validBefore |-> <<"9">>]]
      [] name = "Garbage" -> [kind |-> "garbage"]
      [] name \in MalformedNames -> MalformedToken(name)
      [] OTHER            -> [kind |-> "empty"]

TokenPool ==
    {"A", "B", "Low", "Other", "BadSig", "NoSig", "Garbage", "Empty"} \cup MalformedNames

\* what each token of the pool decodes to
Decoded == [name \in TokenPool |-> decode_x402_payment(TokenOf(name))]

(***************************************************************************)
(* Bounds of the model.                                                    *)
(***************************************************************************)
\* Two requests are in flight.  Executions are serialised by two locks, so no
\* more than two of them ever run at once, however many requests there are.
Reqs == {1, 2}
TokenNames == {"A", "B", "NoSig"}
\* how many times the environment may fail on its own (a dropped connection,
\* a revert the gateway did not cause, a wait or a sub-call that times out)
MaxFaults == 1
\* the calls of decode_x402_payment whose results are compared
Calls == {1, 2}
\* the /api/info requests, each served by a thread of its own
InfoReqs == {1, 2, 3}
\* the clock moves in steps of TickStep seconds up to MaxClock
TickStep == 5
MaxClock == 25
\* the most tokens that are minted while /api/info is watched
MaxMinted == 1

(***************************************************************************)
(* Program constants.                                                      *)
(***************************************************************************)
\* variant: the loop runs once more than intended
max_retries_one_more == 3 + 1
max_retries == 3
SigVIndex == 64
\* line 37: the time to live of the /api/info cache, in seconds
CACHE_TTL == 10

VARIABLES
    header,            \* [Reqs -> token name]: the x-payment header of each request
    route,             \* [Reqs -> {"mint", "facilitate"}]: the endpoint the client calls
    handler,           \* [Threads -> record]: position and locals of each handler
    facilitator_lock,  \* 0 (free) or the request whose facilitate handler holds it
    mint_lock,         \* 0 (free) or the request whose mint handler holds it
    slots,             \* ledger: the signer's transactions by sequence number (pending view)
    outcome,           \* ledger: receipt status of the mined prefix of slots
    faults,            \* how many environment faults have happened
    x_payment,         \* [Calls -> header]: the argument of each call of decode_x402_payment
    payment,           \* [Calls -> record]: what each call returned, Pending before it ran
    info_cache,        \* the global info_cache: [data, timestamp]
    info,              \* [InfoReqs -> record]: position and locals of each /api/info handler
    clock,             \* time.time()
    totalSupply        \* what the NFT contract's totalSupply() returns

gateway_vars == <<header, route, handler, facilitator_lock, mint_lock, slots, outcome, faults>>
decode_vars == <<x_payment, payment>>
info_vars == <<info_cache, info, clock, totalSupply>>
vars == <<header, route, handler, facilitator_lock, mint_lock, slots, outcome, faults,
          x_payment, payment, info_cache, info, clock, totalSupply>>

Kinds == {"facilitate", "mint"}
Threads == Kinds \X Reqs
F(r) == <<"facilitate", r>>
M(r) == <<"mint", r>>

payment_data(r) == Decoded[header[r]]

(***************************************************************************)
(* Signature parsing in facilitate (lines 208-219): strip 0x, fromhex,     *)
(* then r, s and v = sig_bytes[64].  Raises on non-hex text, odd length or *)
(* fewer than 65 bytes.                                                    *)
(***************************************************************************)
SignatureParses(signature) ==
    LET hex == Strip0x(signature)
    IN /\ \A i \in 1..Len(hex) : hex[i] \in HexChars
       /\ Len(hex) % 2 = 0
       /\ Len(hex) \div 2 > SigVIndex

\* whether the signature of each decodable token of the pool parses
SignatureOk ==
    [name \in TokenPool |->
        Decoded[name].valid /\ SignatureParses(Decoded[name].signature)]

(***************************************************************************)
(* The contract calls that are built.                                      *)
(***************************************************************************)
\* lines 246-256: transferWithAuthorization(from, to, value, validAfter, validBefore, nonce, v, r, s)
TransferCall(pd) ==
    [from        |-> to_checksum_address(pd.from),
     to          |-> to_checksum_address(pd.to),
     value       |-> ParseInt(pd.value),
     validAfter  |-> ParseInt(pd.validAfter),
     validBefore |-> ParseInt(pd.validBefore),
     nonce       |-> to_bytes(pd.nonce)]

\* variant: the guard passed to mintNFT differs from one attempt to the next
MintCall_guard_per_attempt(pd, attempt) ==
    [to     |-> to_checksum_address(pd.from),
     txHash |-> <<"bytes32", pd.txHash, attempt>>]

\* lines 437-438, 453-456: mintNFT(user_address, tx_hash_bytes)
MintCall(pd, attempt) ==
    [to     |-> to_checksum_address(pd.from),
     txHash |-> <<"bytes32", pd.txHash>>]

\* variant: the fee bid is not escalated
gas_multiplier_flat(attempt) == 2

\* lines 241, 260 and 451, 460: maxFeePerGas = base_fee * (2 + attempt)
gas_multiplier(attempt) == 2 + attempt
maxFeePerGas(base_fee, attempt) == base_fee * gas_multiplier(attempt)

(***************************************************************************)
(* The remote ledger.  A transaction is named by the execution and attempt *)
(* that sent it: [kind, req, attempt, fee].                                *)
(***************************************************************************)
Mined == Len(outcome)

\* get_transaction_count(address, 'pending')
PendingCount == Len(slots)

\* w3.eth.gas_price: the network's price moves as blocks are mined
BaseGasPrice == 5
gas_price == BaseGasPrice + Mined

TxKey(tx) == <<tx.kind, tx.req, tx.attempt>>

\* Receipt of a transaction: "success", "reverted", or "none" while it is
\* pending or after it was replaced in its slot.
Receipt(kind, r, attempt) ==
    IF \E i \in 1..Mined : TxKey(slots[i]) = <<kind, r, attempt>>
    THEN outcome[CHOOSE i \in 1..Mined : TxKey(slots[i]) = <<kind, r, attempt>>]
    ELSE "none"

\* the transfer call each decodable token of the pool leads to
TransferCalls ==
    [name \in TokenPool |->
        IF Decoded[name].valid THEN TransferCall(Decoded[name]) ELSE [from |-> <<>>]]

\* the authorization a transfer transaction carries, as the token contract keys it
AuthOf(tx) == LET c == TransferCalls[header[tx.req]] IN <<c.from, c.nonce>>
GuardOf(tx) == MintCall(payment_data(tx.req), tx.attempt).txHash

UsedAuths ==
    {AuthOf(slots[i]) : i \in {j \in 1..Mined : slots[j].kind = "facilitate" /\ outcome[j] = "success"}}
UsedGuards ==
    {GuardOf(slots[i]) : i \in {j \in 1..Mined : slots[j].kind = "mint" /\ outcome[j] = "success"}}

\* token contract: an authorization (payer, nonce) is consumed by its first transfer
TransferAccepts(tx) == AuthOf(tx) \notin UsedAuths
\* NFT contract: a settlementId already seen is rejected
MintAccepts(tx) == GuardOf(tx) \notin UsedGuards

\* currentTokenId(): the number of tokens minted so far
currentTokenId == Cardinality({j \in 1..Mined : slots[j].kind = "mint" /\ outcome[j] = "success"})

\* The ledger mines the next transaction of the signer.  A call the contract
\* rejects reverts; any call may revert for reasons outside the gateway
\* (balance, validity window, signature, supply).
Mine ==
    /\ Mined < Len(slots)
    /\ LET tx == slots[Mined + 1]
           ok == IF tx.kind = "facilitate" THEN TransferAccepts(tx) ELSE MintAccepts(tx)
       IN \/ /\ outcome' = Append(outcome, IF ok THEN "success" ELSE "reverted")
             /\ UNCHANGED faults
          \/ /\ ok
             /\ faults < MaxFaults
             /\ outcome' = Append(outcome, "reverted")
             /\ faults' = faults + 1
    \* the fee bid matters while the transaction can still be replaced
    /\ slots' = [slots EXCEPT ![Mined + 1].fee = 0]
    /\ UNCHANGED <<header, route, handler, facilitator_lock, mint_lock,
                 decode_vars, info_vars>>

ErrNonceTooLow == "nonce too low"
ErrUnderpriced == "replacement transaction underpriced"
ErrConnection == "connection error"
ErrTimeout == "not in the chain after timeout"

\* send_raw_transaction: what the node answers to a transaction with this
\* sequence number and fee: "accepted" or an error message.
SendAnswers(nonce, fee) ==
    IF nonce < Mined THEN {ErrNonceTooLow}
    ELSE IF nonce < Len(slots)
         THEN IF fee > slots[nonce + 1].fee THEN {"accepted"} ELSE {ErrUnderpriced}
         ELSE {"accepted"} \cup (IF faults < MaxFaults THEN {ErrConnection} ELSE {})

(***************************************************************************)
(* The retry loop shared by both executions (facilitate lines 232-307,     *)
(* mint lines 446-509).                                                    *)
(***************************************************************************)
\* 'nonce' in error_msg.lower() or 'replacement' in error_msg.lower()
IsConflictMsg(error_msg) == error_msg \in {ErrNonceTooLow, ErrUnderpriced}

\* the except block (lines 292-305, 493-504): what the loop does next
AfterError(attempt, error_msg) ==
    IF IsConflictMsg(error_msg) /\ attempt < max_retries - 1 THEN "continue"
    ELSE IF attempt >= max_retries - 1 THEN "raise"
    ELSE "fallthrough"

\* after a receipt (lines 274-290, 472-491)
AfterReceipt(attempt, status) ==
    IF status = "success" THEN "return_ok"
    ELSE IF attempt < max_retries - 1 THEN "continue"
    ELSE "return_failed"

\* A handler: its position, the locals of its retry loop (attempt, nonce,
\* base_fee, error_msg, current_token_id, tx_hash), what it has done so far
\* (sends, conflicts) and its response (code, body, tx, to, tokenId).
Blank(pc) ==
    [pc |-> pc, attempt |-> 0, nonce |-> 0, base_fee |-> 0, error_msg |-> "",
     current_token_id |-> 0, tx_hash |-> <<>>, sends |-> 0, conflicts |-> 0,
     code |-> 0, body |-> "", tx |-> <<>>, to |-> <<>>, tokenId |-> 0]

Response(code, body, tokenId) ==
    [Blank("done") EXCEPT !.code = code, !.body = body, !.tokenId = tokenId]

\* variant: mint_lock is taken by hand and an exit path forgets to give it back
Release_forgets_mint_lock(kind) ==
    IF kind = "facilitate"
    THEN facilitator_lock' = 0 /\ UNCHANGED mint_lock
    ELSE UNCHANGED <<facilitator_lock, mint_lock>>

\* leaving the "with" block of the execution's lock
Release(kind) ==
    IF kind = "facilitate"
    THEN facilitator_lock' = 0 /\ UNCHANGED mint_lock
    ELSE mint_lock' = 0 /\ UNCHANGED facilitator_lock

FailedBody(kind) ==
    IF kind = "facilitate" THEN "Transfer failed after retries" ELSE "Mint transaction failed"

\* variant: a failed mint sends the request back to the facilitator to
\* reverse the transfer
Return_compensates(h, t, code, body) ==
    /\ handler' = [handler EXCEPT
           ![t] = [h EXCEPT !.pc = "done", !.nonce = 0, !.base_fee = 0, !.tx_hash = <<>>,
                            !.current_token_id = IF code = 200 THEN @ ELSE 0,
                            !.code = code, !.body = body,
                            !.tx = IF code = 200 THEN h.tx_hash ELSE <<>>,
                            !.to = IF t[1] = "mint" /\ code = 200
                                   THEN MintCall(payment_data(t[2]), h.attempt).to ELSE <<>>,
                            !.tokenId = IF t[1] = "mint" /\ code = 200
                                        THEN h.current_token_id + 1 ELSE 0],
           ![F(t[2])] = IF t[1] = "mint" /\ code = 500 THEN Blank("lock") ELSE @]
    /\ Release(t[1])

\* variant: the answer reports the counter as it was read, not the next id
Return_reports_counter(h, t, code, body) ==
    /\ handler' = [handler EXCEPT ![t] =
           [h EXCEPT !.pc = "done", !.nonce = 0, !.base_fee = 0, !.tx_hash = <<>>,
                     !.current_token_id = IF code = 200 THEN @ ELSE 0,
                     !.code = code, !.body = body,
                     !.tx = IF code = 200 THEN h.tx_hash ELSE <<>>,
                     !.to = IF t[1] = "mint" /\ code = 200
                            THEN MintCall(payment_data(t[2]), h.attempt).to ELSE <<>>,
                     !.tokenId = IF t[1] = "mint" /\ code = 200
                                 THEN h.current_token_id ELSE 0]]
    /\ Release(t[1])

\* the handler returns from inside the loop, with this attempt as the last one:
\* lines 276-282 (txHash) and 474-480 (tx, to, tokenId)
Return(h, t, code, body) ==
    /\ handler' = [handler EXCEPT ![t] =
           [h EXCEPT !.pc = "done", !.nonce = 0, !.base_fee = 0, !.tx_hash = <<>>,
                     !.current_token_id = IF code = 200 THEN @ ELSE 0,
                     !.code = code, !.body = body,
                     !.tx = IF code = 200 THEN h.tx_hash ELSE <<>>,
                     !.to = IF t[1] = "mint" /\ code = 200
                            THEN MintCall(payment_data(t[2]), h.attempt).to ELSE <<>>,
                     !.tokenId = IF t[1] = "mint" /\ code = 200
                                 THEN h.current_token_id + 1 ELSE 0]]
    /\ Release(t[1])

\* variant: the lock is given up for the backoff sleep between two attempts
Continue_releases_lock(h, t) ==
    /\ handler' = [handler EXCEPT ![t] =
           [h EXCEPT !.pc = "read", !.attempt = @ + 1, !.base_fee = 0,
                     !.tx_hash = <<>>]]
    /\ Release(t[1])

\* the loop goes to its next iteration; nonce keeps the value of this attempt
\* until the next read assigns it
Continue(h, t) ==
    /\ handler' = [handler EXCEPT ![t] =
           [h EXCEPT !.pc = "read", !.attempt = @ + 1, !.base_fee = 0,
                     !.tx_hash = <<>>]]
    /\ UNCHANGED <<facilitator_lock, mint_lock>>

\* variant: the re-raised exception is caught by nobody, the handler dies
Handle_raise_escapes(h, t, decision) ==
    CASE decision = "return_ok"     -> Return(h, t, 200, "")
      [] decision = "return_failed" -> Return(h, t, 500, FailedBody(t[1]))
      [] decision = "raise"         -> /\ handler' = [handler EXCEPT ![t] = [h EXCEPT !.pc = "crashed"]]
                                       /\ Release(t[1])
      [] OTHER                      -> Continue(h, t)

\* h: the handler's locals after the remote call; decision: what the loop does
Handle(h, t, decision) ==
    CASE decision = "return_ok"     -> Return(h, t, 200, "")
      [] decision = "return_failed" -> Return(h, t, 500, FailedBody(t[1]))
      [] decision = "raise"         -> Return(h, t, 500, h.error_msg)
      [] OTHER                      -> Continue(h, t)

\* the except block binds error_msg; a conflict message is counted
Caught(h, error_msg) ==
    [h EXCEPT !.error_msg = error_msg,
              !.conflicts = IF IsConflictMsg(error_msg) THEN @ + 1 ELSE @]

(***************************************************************************)
(* /api/facilitate (lines 159-312).                                        *)
(***************************************************************************)
\* lines 168-228: take the lock, read and decode the header, parse the signature
FacilitateEnter(r) ==
    /\ handler[F(r)].pc = "lock"
    /\ facilitator_lock = 0
    /\ LET pd == payment_data(r)
       IN IF header[r] = "Empty"
          THEN /\ handler' = [handler EXCEPT ![F(r)] = Response(400, "Missing x-payment", 0)]
               /\ UNCHANGED facilitator_lock
          ELSE IF ~pd.valid
          THEN /\ handler' = [handler EXCEPT ![F(r)] = Response(400, "Invalid payment", 0)]
               /\ UNCHANGED facilitator_lock
          ELSE IF ~SignatureOk[header[r]]
          THEN /\ handler' = [handler EXCEPT ![F(r)] = Response(500, "signature", 0)]
               /\ UNCHANGED facilitator_lock
          ELSE /\ handler' = [handler EXCEPT ![F(r)].pc = "read"]
               /\ facilitator_lock' = r
    /\ UNCHANGED <<header, route, mint_lock, slots, outcome, faults,
                 decode_vars, info_vars>>

(***************************************************************************)
(* One attempt of an execution, in its three remote calls.                 *)
(***************************************************************************)
\* variant: only the first attempt reads the sequence number
ExecRead_first_attempt_only(t) ==
    /\ handler[t].pc = "read"
    /\ handler' = [handler EXCEPT ![t].pc = "send",
                                  ![t].nonce = IF handler[t].attempt = 0
                                               THEN PendingCount ELSE @,
                                  ![t].base_fee = gas_price]
    /\ UNCHANGED <<header, route, facilitator_lock, mint_lock, slots, outcome, faults,
                 decode_vars, info_vars>>

\* lines 235-238 and 449-450: read the pending sequence number and the gas price
ExecRead(t) ==
    /\ handler[t].pc = "read"
    /\ handler' = [handler EXCEPT ![t].pc = "send", ![t].nonce = PendingCount,
                                  ![t].base_fee = gas_price]
    /\ UNCHANGED <<header, route, facilitator_lock, mint_lock, slots, outcome, faults,
                 decode_vars, info_vars>>

\* lines 246-267 and 453-466: build, sign, send_raw_transaction
ExecSend(t) ==
    /\ handler[t].pc = "send"
    /\ LET h == handler[t]
           fee == maxFeePerGas(h.base_fee, h.attempt)
           tx == [kind |-> t[1], req |-> t[2], attempt |-> h.attempt, fee |-> fee]
           sent == [h EXCEPT !.sends = @ + 1]
           \* the hash that send_raw_transaction returns names the transaction
           hash == TxKey(tx)
       IN \E answer \in SendAnswers(h.nonce, fee) :
            IF answer = "accepted"
            THEN /\ slots' = IF h.nonce < Len(slots)
                             THEN [slots EXCEPT ![h.nonce + 1] = tx]
                             ELSE Append(slots, tx)
                 /\ handler' = [handler EXCEPT ![t] = [sent EXCEPT !.pc = "wait",
                                                                    !.tx_hash = hash]]
                 /\ UNCHANGED <<facilitator_lock, mint_lock, faults>>
            ELSE /\ UNCHANGED slots
                 /\ faults' = IF answer = ErrConnection THEN faults + 1 ELSE faults
                 /\ Handle(Caught(sent, answer), t, AfterError(h.attempt, answer))
    /\ UNCHANGED <<header, route, outcome,
                 decode_vars, info_vars>>

\* lines 272-290 and 470-491: wait_for_transaction_receipt, with its timeout
ExecWait(t) ==
    /\ handler[t].pc = "wait"
    /\ LET h == handler[t]
           status == Receipt(t[1], t[2], h.attempt)
           replaced == \A i \in 1..Len(slots) : TxKey(slots[i]) # <<t[1], t[2], h.attempt>>
       IN IF status = "none"
          THEN /\ replaced \/ faults < MaxFaults
               /\ faults' = IF replaced THEN faults ELSE faults + 1
               /\ Handle(Caught(h, ErrTimeout), t, AfterError(h.attempt, ErrTimeout))
          ELSE /\ UNCHANGED faults
               /\ Handle(h, t, AfterReceipt(h.attempt, status))
    /\ UNCHANGED <<header, route, slots, outcome,
                 decode_vars, info_vars>>

(***************************************************************************)
(* /api/mint (lines 315-517).                                              *)
(***************************************************************************)
\* lines 325-406: no header -> 402; invalid -> 400; else POST to /api/facilitate
MintStart(r) ==
    /\ handler[M(r)].pc = "start"
    /\ IF header[r] = "Empty"
       THEN handler' = [handler EXCEPT ![M(r)] = Response(402, "Payment required", 0)]
       ELSE IF ~payment_data(r).valid
       THEN handler' = [handler EXCEPT ![M(r)] = Response(400, "Invalid payment", 0)]
       ELSE handler' = [handler EXCEPT ![M(r)].pc = "call", ![F(r)].pc = "lock"]
    /\ UNCHANGED <<header, route, facilitator_lock, mint_lock, slots, outcome, faults,
                 decode_vars, info_vars>>

\* variant: the facilitator's status code is not looked at
MintCallReturn_any_status(r) ==
    /\ handler[M(r)].pc = "call"
    /\ handler[F(r)].pc = "done"
    /\ handler' = [handler EXCEPT ![M(r)].pc = "lock"]
    /\ UNCHANGED <<header, route, facilitator_lock, mint_lock, slots, outcome, faults,
                 decode_vars, info_vars>>

\* lines 408-423: the facilitator answered
MintCallReturn(r) ==
    /\ handler[M(r)].pc = "call"
    /\ handler[F(r)].pc = "done"
    /\ IF handler[F(r)].code = 200
       THEN handler' = [handler EXCEPT ![M(r)].pc = "lock"]
       ELSE handler' = [handler EXCEPT ![M(r)] = Response(500, "USDC transfer failed", 0)]
    /\ UNCHANGED <<header, route, facilitator_lock, mint_lock, slots, outcome, faults,
                 decode_vars, info_vars>>

\* lines 405, 415-423: the POST timed out (90 s) before the facilitator answered
MintCallTimeout(r) ==
    /\ handler[M(r)].pc = "call"
    /\ handler[F(r)].pc # "done"
    /\ faults < MaxFaults
    /\ faults' = faults + 1
    /\ handler' = [handler EXCEPT ![M(r)] = Response(500, "USDC transfer failed", 0)]
    /\ UNCHANGED <<header, route, facilitator_lock, mint_lock, slots, outcome,
                 decode_vars, info_vars>>

\* lines 426-434: take mint_lock and read currentTokenId(); a failed read raises
\* to the handler's except (lines 511-517)
MintEnter(r) ==
    /\ handler[M(r)].pc = "lock"
    /\ mint_lock = 0
    /\ \/ /\ handler' = [handler EXCEPT ![M(r)].pc = "read",
                                        ![M(r)].current_token_id = currentTokenId]
          /\ mint_lock' = r
          /\ UNCHANGED faults
       \/ /\ faults < MaxFaults
          /\ faults' = faults + 1
          /\ handler' = [handler EXCEPT ![M(r)] = Response(500, ErrConnection, 0)]
          /\ UNCHANGED mint_lock
    /\ UNCHANGED <<header, route, facilitator_lock, slots, outcome,
                 decode_vars, info_vars>>

(***************************************************************************)
(* Calls of decode_x402_payment on their own.                              *)
(***************************************************************************)
\* the value of payment[c] before call c has run
Pending == [pending |-> TRUE]

\* The headers that are decoded: both shapes of every field map that gives each
\* of from, to, value, nonce, validBefore one of two texts ('' among those of
\* nonce), with or without a signature; and a header that does not parse.
FieldMaps ==
    LET full == [from : {PayerA, PayerB},
                 to : {RECIPIENT_ADDRESS, <<"0", "x", "c", "c">>},
                 value : {Price, BelowPrice},
                 nonce : {<<"0", "x", "0", "1">>, <<>>},
                 validAfter : {<<"1">>},
                 validBefore : {<<"9">>, <<"8">>},
                 signature : {SigShort}]
    IN full \cup {DropKey(fm, "signature") : fm \in full}
Inputs == [shape : Shapes, fields : FieldMaps] \cup {[shape |-> "garbage"]}
HeaderOf(input) ==
    IF input.shape = "garbage" THEN [kind |-> "garbage"]
    ELSE Token(input.shape, input.fields)

\* no call of decode_x402_payment is looked at
NoDecodeCalls ==
    /\ x_payment = [c \in Calls |-> [shape |-> "garbage"]]
    /\ payment = [c \in Calls |-> Pending]

\* payment_data = decode_x402_payment(x_payment)
Decode(c) ==
    /\ payment[c] = Pending
    /\ payment' = [payment EXCEPT ![c] = decode_x402_payment(HeaderOf(x_payment[c]))]
    /\ UNCHANGED <<x_payment, gateway_vars, info_vars>>

(***************************************************************************)
(* /api/info (lines 519-555) and its cache (line 36).                      *)
(***************************************************************************)
\* None
NoData == [none |-> TRUE]
\* line 539: total_supply = "unknown"
Unknown == <<"str", "unknown">>
\* the data dict, by its one field that is not configuration: "minted"
Data(total_supply) == [minted |-> total_supply]

InfoBlank ==
    [pc |-> "idle", now |-> 0, data |-> NoData, cached |-> FALSE, body |-> NoData]

\* line 36: info_cache = {"data": None, "timestamp": 0}; time.time() counts from
\* an epoch that lies far more than CACHE_TTL back
InfoInit ==
    /\ info_cache = [data |-> NoData, timestamp |-> 0]
    /\ info = [i \in InfoReqs |-> InfoBlank]
    /\ clock = CACHE_TTL
    /\ totalSupply = 0

\* line 525: now = time.time()
InfoStart(i) ==
    /\ info[i].pc = "idle"
    /\ info' = [info EXCEPT ![i].pc = "check", ![i].now = clock]
    /\ UNCHANGED <<info_cache, clock, totalSupply, gateway_vars, decode_vars>>

\* variant: a snapshot of exactly CACHE_TTL seconds still counts as fresh
InfoCheck_ttl_inclusive(i) ==
    /\ info[i].pc = "check"
    /\ info' = [info EXCEPT ![i].pc =
                  IF info_cache.data # NoData
                       /\ (info[i].now - info_cache.timestamp) <= CACHE_TTL
                  THEN "serve" ELSE "refresh"]
    /\ UNCHANGED <<info_cache, clock, totalSupply, gateway_vars, decode_vars>>

\* line 526: if info_cache["data"] and (now - info_cache["timestamp"]) < CACHE_TTL
InfoCheck(i) ==
    /\ info[i].pc = "check"
    /\ info' = [info EXCEPT ![i].pc =
                  IF info_cache.data # NoData
                       /\ (info[i].now - info_cache.timestamp) < CACHE_TTL
                  THEN "serve" ELSE "refresh"]
    /\ UNCHANGED <<info_cache, clock, totalSupply, gateway_vars, decode_vars>>

\* line 527: return jsonify(info_cache["data"])
InfoServe(i) ==
    /\ info[i].pc = "serve"
    /\ info' = [info EXCEPT ![i].pc = "done", ![i].cached = TRUE,
                            ![i].body = info_cache.data]
    /\ UNCHANGED <<info_cache, clock, totalSupply, gateway_vars, decode_vars>>

\* lines 530-549: totalSupply().call(), or "unknown" when the read raises; data
InfoRefresh(i) ==
    /\ info[i].pc = "refresh"
    /\ \/ info' = [info EXCEPT ![i].pc = "store_data",
                               ![i].data = Data(<<"int", totalSupply>>)]
       \/ info' = [info EXCEPT ![i].pc = "store_data", ![i].data = Data(Unknown)]
    /\ UNCHANGED <<info_cache, clock, totalSupply, gateway_vars, decode_vars>>

\* line 552: info_cache["data"] = data
InfoStoreData(i) ==
    /\ info[i].pc = "store_data"
    /\ info_cache' = [info_cache EXCEPT !.data = info[i].data]
    /\ info' = [info EXCEPT ![i].pc = "store_timestamp"]
    /\ UNCHANGED <<clock, totalSupply, gateway_vars, decode_vars>>

\* lines 553-555: info_cache["timestamp"] = now; return jsonify(data)
InfoStoreTimestamp(i) ==
    /\ info[i].pc = "store_timestamp"
    /\ info_cache' = [info_cache EXCEPT !.timestamp = info[i].now]
    /\ info' = [info EXCEPT ![i].pc = "done", ![i].body = info[i].data]
    /\ UNCHANGED <<clock, totalSupply, gateway_vars, decode_vars>>

\* time passes
Tick ==
    /\ clock + TickStep <= MaxClock
    /\ clock' = clock + TickStep
    /\ UNCHANGED <<info_cache, info, totalSupply, gateway_vars, decode_vars>>

\* a token is minted
SupplyGrows ==
    /\ totalSupply < MaxMinted
    /\ totalSupply' = totalSupply + 1
    /\ UNCHANGED <<info_cache, info, clock, gateway_vars, decode_vars>>

(***************************************************************************)
(* The system.                                                             *)
(***************************************************************************)
Init ==
    /\ header \in [Reqs -> TokenNames]
    /\ route \in [Reqs -> Kinds]
    /\ route[1] = "mint" /\ header[1] = "A"
    /\ handler = [t \in Threads |->
                    IF t[1] = route[t[2]]
                    THEN Blank(IF t[1] = "mint" THEN "start" ELSE "lock")
                    ELSE Blank("idle")]
    /\ facilitator_lock = 0
    /\ mint_lock = 0
    /\ slots = <<>>
    /\ outcome = <<>>
    /\ faults = 0
    /\ NoDecodeCalls
    /\ InfoInit

\* the steps of /api/mint, /api/facilitate and the ledger
Next ==
    \/ \E r \in Reqs : FacilitateEnter(r)
    \/ \E r \in Reqs : MintStart(r)
    \/ \E r \in Reqs : MintCallReturn(r)
    \/ \E r \in Reqs : MintCallTimeout(r)
    \/ \E r \in Reqs : MintEnter(r)
    \/ \E t \in Threads : ExecRead(t)
    \/ \E t \in Threads : ExecSend(t)
    \/ \E t \in Threads : ExecWait(t)
    \/ Mine

Spec == Init /\ [][Next]_vars

\* One request, carrying any token of the pool; the other request is a bare
\* call of /api/facilitate without a header.
PolicyInit ==
    /\ header \in [Reqs -> TokenPool]
    /\ route \in [Reqs -> Kinds]
    /\ header[2] = "Empty" /\ route[2] = "facilitate"
    /\ handler = [t \in Threads |->
                    IF t[1] = route[t[2]]
                    THEN Blank(IF t[1] = "mint" THEN "start" ELSE "lock")
                    ELSE Blank("idle")]
    /\ facilitator_lock = 0
    /\ mint_lock = 0
    /\ slots = <<>>
    /\ outcome = <<>>
    /\ faults = 0
    /\ NoDecodeCalls
    /\ InfoInit

PolicySpec == PolicyInit /\ [][Next]_vars

\* Threads are scheduled, remote calls return, and the ledger mines what is pending.
FairSpec == Spec /\ WF_vars(Next)

\* Request 1 has paid (its transfer is confirmed) and holds mint_lock in the
\* last iteration of the mint loop (lines 445-509), after two attempts whose
\* send_raw_transaction raised a connection error (except of lines 493-509);
\* request 2 has just arrived.
LastAttemptInit ==
    /\ header \in [Reqs -> TokenNames]
    /\ route \in [Reqs -> Kinds]
    /\ route[1] = "mint" /\ header[1] = "A"
    /\ handler = [t \in Threads |->
                    IF t = F(1)
                    THEN [Blank("done") EXCEPT !.sends = 1, !.code = 200,
                                               !.tx = <<"facilitate", 1, 0>>]
                    ELSE IF t = M(1)
                    THEN [Blank("read") EXCEPT !.attempt = max_retries - 1, !.sends = 2,
                                               !.nonce = 1,
                                               !.error_msg = ErrConnection]
                    ELSE IF t[1] = route[t[2]]
                    THEN Blank(IF t[1] = "mint" THEN "start" ELSE "lock")
                    ELSE Blank("idle")]
    /\ facilitator_lock = 0
    /\ mint_lock = 1
    /\ slots = <<[kind |-> "facilitate", req |-> 1, attempt |-> 0, fee |-> 0]>>
    /\ outcome = <<"success">>
    /\ faults = 0
    /\ NoDecodeCalls
    /\ InfoInit

LastAttemptSpec == LastAttemptInit /\ [][Next]_vars

\* no request of /api/mint or /api/facilitate is under way
GatewayIdle ==
    /\ header = [r \in Reqs |-> "Empty"]
    /\ route = [r \in Reqs |-> "facilitate"]
    /\ handler = [t \in Threads |-> Blank("idle")]
    /\ facilitator_lock = 0
    /\ mint_lock = 0
    /\ slots = <<>>
    /\ outcome = <<>>
    /\ faults = 0

\* Two calls of decode_x402_payment, each on any header of Inputs.
DecodeInit ==
    /\ x_payment \in [Calls -> Inputs]
    /\ payment = [c \in Calls |-> Pending]
    /\ GatewayIdle
    /\ InfoInit

DecodeNext == \E c \in Calls : Decode(c)

DecodeSpec == DecodeInit /\ [][DecodeNext]_vars

\* Three /api/info requests that arrive at any time, in threads of their own
\* (the server of line 578 handles each request in a new thread).
InfoSpecInit ==
    /\ InfoInit
    /\ GatewayIdle
    /\ NoDecodeCalls

InfoNext ==
    \/ \E i \in InfoReqs : InfoStart(i)
    \/ \E i \in InfoReqs : InfoCheck(i)
    \/ \E i \in InfoReqs : InfoServe(i)
    \/ \E i \in InfoReqs : InfoRefresh(i)
    \/ \E i \in InfoReqs : InfoStoreData(i)
    \/ \E i \in InfoReqs : InfoStoreTimestamp(i)
    \/ Tick
    \/ SupplyGrows

InfoSpec == InfoSpecInit /\ [][InfoNext]_vars

(***************************************************************************)
(* Properties.                                                             *)
(***************************************************************************)
InExecution(t) == handler[t].pc \in {"read", "send", "wait"}
Done(t) == handler[t].pc = "done"
\* the keys of the transactions of request r that the ledger holds
TxsOf(r) == {TxKey(slots[i]) : i \in {j \in 1..Len(slots) : slots[j].req = r}}
\* the transfer that the facilitator reported for request r is confirmed with success
TransferConfirmed(r) ==
    /\ Done(F(r)) /\ handler[F(r)].code = 200
    /\ Receipt("facilitate", r, handler[F(r)].attempt) = "success"

\* C1: a mint transaction of a request is built or submitted only after the
\* facilitator reported that request's transfer confirmed with success; when the
\* facilitator call fails or times out the request ends with the transfer-failed
\* error and has sent no mint transaction.
C1_NoMintWithoutTransfer ==
    \A r \in Reqs :
        /\ (handler[M(r)].pc \in {"lock", "read", "send", "wait"} \/ handler[M(r)].sends > 0
              \/ \E k \in TxsOf(r) : k[1] = "mint")
             => TransferConfirmed(r)
        /\ (Done(M(r)) /\ ~(Done(F(r)) /\ handler[F(r)].code = 200)
              /\ handler[M(r)].code \notin {400, 402})
             => /\ handler[M(r)].code = 500
                /\ handler[M(r)].body = "USDC transfer failed"
                /\ handler[M(r)].sends = 0

C1_Witness ==
    /\ \E r \in Reqs : handler[M(r)].pc = "wait"
    /\ \E r \in Reqs : /\ Done(F(r)) /\ handler[F(r)].code = 500 /\ handler[F(r)].sends = 3
                       /\ Done(M(r)) /\ handler[M(r)].body = "USDC transfer failed"

\* C2: no execution submits a transaction with a sequence number that another
\* execution's transaction has taken since the number was read.
C2_NoSequenceCollision ==
    [][\A t \in Threads :
          (handler[t].pc = "send" /\ handler'[t].pc # "send")
             => handler[t].nonce >= Len(slots)]_vars

\* C3: each authorization has at most one transfer confirmed with success, and
\* each settlementId has at most one mint confirmed with success.
C3_AtMostOnce ==
    \A i, j \in 1..Mined :
        (i # j /\ outcome[i] = "success" /\ outcome[j] = "success"
           /\ slots[i].kind = slots[j].kind)
        => IF slots[i].kind = "facilitate"
           THEN AuthOf(slots[i]) # AuthOf(slots[j])
           ELSE payment_data(slots[i].req).txHash # payment_data(slots[j].req).txHash

\* a replayed token: its second transfer reverted, and the first request got its mint
C3_Witness ==
    \E i, j, k \in 1..Mined :
        /\ slots[i].kind = "facilitate" /\ outcome[i] = "success"
        /\ slots[j].kind = "facilitate" /\ outcome[j] = "reverted"
        /\ slots[i].req # slots[j].req /\ AuthOf(slots[i]) = AuthOf(slots[j])
        /\ slots[k].kind = "mint" /\ outcome[k] = "success"

\* C4: a request whose authorization has an amount below MINT_PRICE never has a
\* transfer submitted.
C4_InsufficientAmountRejected ==
    \A r \in Reqs :
        (payment_data(r).valid /\ ParseInt(payment_data(r).value) < MINT_PRICE)
            => handler[F(r)].sends = 0

\* C5: a request whose authorization names a recipient other than
\* RECIPIENT_ADDRESS (compared case-insensitively) never has a transfer submitted.
C5_WrongRecipientRejected ==
    \A r \in Reqs :
        (payment_data(r).valid /\ Lower(payment_data(r).to) # Lower(RECIPIENT_ADDRESS))
            => handler[F(r)].sends = 0

\* C6: attempt k (k = 1, 2, 3) bids (k+1) times the base fee read in that
\* attempt; and an execution whose attempts 1 and 2 met a conflict error and
\* whose attempt 3 was confirmed with success made 3 submissions and succeeded.
C6_RetryEscalation ==
    \A t \in Threads :
        /\ handler[t].pc = "wait" =>
             \A i \in (Mined + 1)..Len(slots) :
                 TxKey(slots[i]) = <<t[1], t[2], handler[t].attempt>>
                    => slots[i].fee = ((handler[t].attempt + 1) + 1) * handler[t].base_fee
        /\ (Done(t) /\ handler[t].attempt = 2 /\ handler[t].conflicts = 2
              /\ IsConflictMsg(handler[t].error_msg)
              /\ Receipt(t[1], t[2], 2) = "success")
             => handler[t].sends = 3 /\ handler[t].code = 200

C6_Witness ==
    \E t \in Threads :
        /\ Done(t) /\ handler[t].attempt = 2 /\ handler[t].conflicts = 2
        /\ IsConflictMsg(handler[t].error_msg)
        /\ Receipt(t[1], t[2], 2) = "success"
        /\ handler[t].code = 200

\* C7: once send_raw_transaction raised an error that is no conflict, the
\* execution has returned an error: it makes no further read or submission.
C7_OtherErrorAborts ==
    \A t \in Threads :
        handler[t].error_msg = ErrConnection => Done(t) /\ handler[t].code = 500

\* C8: an execution makes at most 3 submissions, and it answers success only
\* when its last attempt is confirmed with success status.
C8_BoundedAttempts ==
    \A t \in Threads :
        /\ handler[t].sends <= 3
        /\ (Done(t) /\ handler[t].sends > 0 /\ handler[t].code = 200)
             => Receipt(t[1], t[2], handler[t].attempt) = "success"
        /\ (Done(t) /\ handler[t].sends > 0
              /\ \A k \in 0..2 : Receipt(t[1], t[2], k) # "success")
             => handler[t].code = 500

C8_Witness ==
    \E t \in Threads :
        /\ Done(t) /\ handler[t].sends = 3 /\ handler[t].code = 500
        /\ \A k \in 0..2 : Receipt(t[1], t[2], k) = "reverted"

\* C9: every /api/mint request that is received is eventually answered, with
\* one of the handler's status codes.
C9_MintTerminates ==
    \A r \in Reqs :
        (handler[M(r)].pc = "start")
            ~> (Done(M(r)) /\ handler[M(r)].code \in {200, 400, 402, 500})

\* an exception of a ledger call was caught and answered
C9_Witness ==
    \E r \in Reqs :
        /\ Done(M(r)) /\ handler[M(r)].code = 500
        /\ handler[M(r)].body \in {ErrConnection, ErrTimeout}
        /\ handler[M(r)].sends > 0

\* the mint execution of request r ran and the request was answered with an error
MintFailed(r) == Done(M(r)) /\ handler[M(r)].sends > 0 /\ handler[M(r)].code = 500

\* C10: a mint execution that ends without a success receipt answers with an
\* error and no token id; from then on no transaction is submitted for the
\* request, its handlers do nothing more, and its transfer stays confirmed.
C10_NoRefundAfterMintFailure ==
    [][\A r \in Reqs :
         /\ (InExecution(M(r)) /\ Done(M(r))'
               /\ ~(handler[M(r)].pc = "wait"
                      /\ Receipt("mint", r, handler[M(r)].attempt) = "success"))
              => MintFailed(r)' /\ handler'[M(r)].tokenId = 0
         /\ MintFailed(r)
              => /\ TxsOf(r)' \subseteq TxsOf(r)
                 /\ handler'[M(r)] = handler[M(r)]
                 /\ handler'[F(r)] = handler[F(r)]
                 /\ TransferConfirmed(r)']_vars

C10_Witness ==
    \E r \in Reqs :
        /\ MintFailed(r) /\ TransferConfirmed(r)
        /\ handler[M(r)].body = "Mint transaction failed"

\* C11: a request whose transfer is confirmed and that got past the facilitator
\* call goes on to submit its mint even when currentTokenId() cannot be read: a
\* failed counter read never ends the request.
C11_CounterReadFailureTolerated ==
    \A r \in Reqs :
        (TransferConfirmed(r) /\ Done(M(r)) /\ handler[M(r)].body # "USDC transfer failed")
            => handler[M(r)].sends > 0

\* the mint transaction of request r with this hash is confirmed with success
MintConfirmed(r, hash) ==
    \E i \in 1..Mined :
        /\ TxKey(slots[i]) = hash /\ outcome[i] = "success"
        /\ slots[i].kind = "mint" /\ slots[i].req = r

\* C12: a request answered with success by /api/mint had its transfer execution
\* and its mint execution succeed, and the answer carries tx, the hash of the mint
\* transaction that was confirmed, to, the payer's account, and tokenId n + 1, n
\* being the counter read before the mint was submitted.
C12_SuccessResponse ==
    \A r \in Reqs :
        (Done(M(r)) /\ handler[M(r)].code = 200)
          => /\ handler[M(r)].sends > 0
             /\ TransferConfirmed(r)
             /\ MintConfirmed(r, handler[M(r)].tx)
             /\ handler[M(r)].to = to_checksum_address(payment_data(r).from)
             /\ handler[M(r)].tokenId = handler[M(r)].current_token_id + 1

\* both executions succeeded at once, or the mint succeeded on a retry
C12_Witness ==
    /\ \E r \in Reqs : Done(M(r)) /\ handler[M(r)].code = 200 /\ handler[M(r)].tokenId = 1
                         /\ handler[M(r)].attempt = 0
    /\ \E r \in Reqs : Done(M(r)) /\ handler[M(r)].code = 200 /\ handler[M(r)].tokenId = 2
                         /\ handler[M(r)].attempt > 0

\* C18: an execution comes to a submission only through a read of the pending
\* sequence number made in the same attempt, and the transaction it submits
\* takes the sequence number of that read.
C18_FreshSequenceNumber ==
    [][\A t \in Threads :
         /\ (handler[t].pc # "send" /\ handler'[t].pc = "send")
              => /\ handler[t].pc = "read"
                 /\ handler'[t].attempt = handler[t].attempt
                 /\ handler'[t].nonce = Len(slots)
         /\ (handler[t].pc = "send" /\ handler'[t].pc = "wait")
              => /\ handler'[t].attempt = handler[t].attempt
                 /\ handler'[t].nonce = handler[t].nonce
                 /\ TxKey(slots'[handler[t].nonce + 1]) = <<t[1], t[2], handler[t].attempt>>
         /\ handler'[t].sends # handler[t].sends => handler[t].pc = "send"]_vars

\* a retry waits for a transaction that took another sequence number than the
\* transaction of the execution's first attempt
C18_Witness ==
    \E t \in Threads : \E i, j \in 1..Len(slots) :
        /\ i < j
        /\ TxKey(slots[i]) = <<t[1], t[2], 0>>
        /\ TxKey(slots[j]) = <<t[1], t[2], handler[t].attempt>>
        /\ handler[t].pc = "wait" /\ handler[t].nonce = j - 1

\* the lock that guards the executions of this kind
LockOf(kind) == IF kind = "facilitate" THEN facilitator_lock ELSE mint_lock

\* C19: at most one request is inside the transfer execution and at most one
\* inside the mint execution; a request inside an execution holds the lock of
\* that execution through all its attempts, and the lock is held by nobody else.
C19_ExclusiveExecutions ==
    /\ \A t \in Threads : InExecution(t) => LockOf(t[1]) = t[2]
    /\ \A kind \in Kinds : Cardinality({r \in Reqs : InExecution(<<kind, r>>)}) <= 1
    /\ \A kind \in Kinds : LockOf(kind) # 0 => InExecution(<<kind, LockOf(kind)>>)

\* a request waits for mint_lock while another request is in a retry of its mint
\* execution
C19_Witness ==
    \E r1, r2 \in Reqs :
        /\ r1 # r2
        /\ InExecution(M(r1)) /\ handler[M(r1)].attempt > 0
        /\ handler[M(r2)].pc = "lock"

\* the tokens of the pool that do not parse or lack one of the seven fields
DefectiveNames == MalformedNames \cup {"Garbage", "NoSig"}

\* C15: a token that does not parse, or in which one of the seven fields is
\* absent or empty, does not decode; a request that carries it is answered
\* "Invalid payment" and never reads a sequence number or the counter and never
\* submits a transfer or a mint.
C15_MalformedRejected ==
    \A r \in Reqs :
        header[r] \in DefectiveNames
          => /\ ~payment_data(r).valid
             /\ \A t \in {F(r), M(r)} :
                  /\ handler[t].pc \notin {"read", "send", "wait"}
                  /\ handler[t].sends = 0
                  /\ Done(t) => handler[t].code = 400 /\ handler[t].body = "Invalid payment"
             /\ handler[M(r)].pc \notin {"call", "lock"}
             /\ TxsOf(r) = {}

\* a nested token with an empty nonce was refused by /api/mint
C15_Witness ==
    \E r \in Reqs :
        /\ header[r] = MalformedName("nested", "nonce", "empty")
        /\ Done(M(r)) /\ handler[M(r)].code = 400

\* call c has returned
Returned(c) == payment[c] # Pending
\* the field map of the header of call c gives a text other than '' to all seven fields
CarriesAll(c) ==
    /\ x_payment[c].shape # "garbage"
    /\ \A k \in Fields7 : k \in DOMAIN x_payment[c].fields /\ x_payment[c].fields[k] # <<>>

\* C13: two calls on the same header return the same record, and two calls that
\* return the same payer, nonce and validBefore return the same settlementId,
\* whatever the amount, the recipient and the shape of their tokens.
C13_SettlementIdOfThreeFields ==
    \A c, d \in Calls :
        (Returned(c) /\ Returned(d))
          => /\ x_payment[c] = x_payment[d] => payment[c] = payment[d]
             /\ (payment[c].valid /\ payment[d].valid
                   /\ payment[c].from = payment[d].from
                   /\ payment[c].nonce = payment[d].nonce
                   /\ payment[c].validBefore = payment[d].validBefore)
                  => payment[c].txHash = payment[d].txHash

\* two tokens of one payer with the same nonce and validBefore, for different
\* amounts and recipients, got one settlementId
C13_Witness ==
    \E c, d \in Calls :
        /\ Returned(c) /\ Returned(d)
        /\ payment[c].valid /\ payment[d].valid
        /\ payment[c].value # payment[d].value /\ payment[c].to # payment[d].to
        /\ payment[c].txHash = payment[d].txHash

\* C14: a flat token and a nested token with the same field map decode to the
\* same record; when the map gives all seven fields, the record is valid and
\* holds these seven texts.
C14_ShapeEquivalence ==
    \A c, d \in Calls :
        (Returned(c) /\ Returned(d)
           /\ x_payment[c].shape = "flat" /\ x_payment[d].shape = "nested"
           /\ x_payment[c].fields = x_payment[d].fields)
          => /\ payment[c] = payment[d]
             /\ CarriesAll(c)
                  => /\ payment[d].valid
                     /\ \A k \in Fields7 : payment[d][k] = x_payment[c].fields[k]

C14_Witness ==
    \E c, d \in Calls :
        /\ Returned(c) /\ Returned(d) /\ CarriesAll(c)
        /\ x_payment[c].shape = "flat" /\ x_payment[d].shape = "nested"
        /\ x_payment[c].fields = x_payment[d].fields
        /\ payment[c].valid /\ payment[c].txHash = payment[d].txHash

InfoDone(i) == info[i].pc = "done"

\* C16: a failed read of the contract is answered "unknown" but is not stored:
\* the cache never holds "unknown", and no request is served "unknown" from it.
C16_FailureNotCached ==
    /\ info_cache.data # NoData => info_cache.data.minted # Unknown
    /\ \A i \in InfoReqs :
         (InfoDone(i) /\ info[i].cached) => info[i].body.minted # Unknown

\* C17: the cache entry is replaced as a unit: whenever no refresh stands between
\* its two stores, the value and the timestamp of the cache are the data and the
\* now of one and the same refresh.
C17_CacheReplacedAsUnit ==
    (info_cache.data # NoData /\ \A i \in InfoReqs : info[i].pc # "store_timestamp")
      => \E i \in InfoReqs :
           /\ InfoDone(i) /\ ~info[i].cached
           /\ info[i].data = info_cache.data
           /\ info[i].now = info_cache.timestamp

\* C20: a request is served from the cache, with no read of the contract, only
\* when at its check a snapshot is stored and now - timestamp < CACHE_TTL for
\* the stored timestamp; every other request reads the contract and stores what
\* it read before it answers.
C20_CacheFreshness ==
    [][\A i \in InfoReqs :
         /\ (info[i].pc = "check" /\ info'[i].pc # "check")
              => /\ info'[i].pc \in {"serve", "refresh"}
                 /\ info'[i].pc = "serve"
                      <=> (info_cache.data # NoData
                             /\ info[i].now - info_cache.timestamp < CACHE_TTL)
         /\ (~InfoDone(i) /\ InfoDone(i)')
              => /\ info'[i].cached <=> info[i].pc = "serve"
                 /\ info'[i].cached => info'[i].body = info_cache.data
                 /\ ~info'[i].cached
                      => /\ info[i].pc = "store_timestamp"
                         /\ info[i].data # NoData
                         /\ info'[i].body = info[i].data
         /\ info'[i].pc = "serve" => info[i].pc \in {"check", "serve"}]_vars

\* one request was served from the cache, and another one found the stored
\* snapshot CACHE_TTL or more seconds old and went to read the contract
C20_Witness ==
    /\ \E i \in InfoReqs : InfoDone(i) /\ info[i].cached
    /\ \E i \in InfoReqs :
         /\ info[i].pc = "refresh"
         /\ info_cache.data # NoData
         /\ info[i].now - info_cache.timestamp >= CACHE_TTL

\* some transfer transaction of request r is confirmed with success
FundsMoved(r) ==
    \E i \in 1..Mined :
        slots[i].kind = "facilitate" /\ slots[i].req = r /\ outcome[i] = "success"

\* C21: once /api/mint has answered a request with the transfer-failed error, or
\* /api/facilitate has answered it with an error, no transfer transaction of that
\* request is confirmed with success, then or later.
C21_FailureMeansNoTransfer ==
    \A r \in Reqs :
        (\/ Done(M(r)) /\ handler[M(r)].body = "USDC transfer failed"
         \/ Done(F(r)) /\ handler[F(r)].code # 200)
          => ~FundsMoved(r)

\* the handler waits for the lock of its execution
WaitsForLock(t) == handler[t].pc = "lock"

\* at no time does a request hold both locks, or hold one while it waits for the
\* other or for its facilitator call; a handler that has answered holds no lock
LockDiscipline ==
    \A r \in Reqs :
        /\ ~(facilitator_lock = r /\ mint_lock = r)
        /\ (WaitsForLock(M(r)) \/ handler[M(r)].pc \in {"start", "call"})
             => mint_lock # r
        /\ WaitsForLock(M(r)) => facilitator_lock # r
        /\ WaitsForLock(F(r)) => facilitator_lock # r /\ mint_lock # r
        /\ \A t \in {F(r), M(r)} : Done(t) => LockOf(t[1]) # r

\* C22: no request holds facilitator_lock and mint_lock together or waits for one
\* while it holds the other, every exit of an execution gives its lock back, and
\* a request that waits for a lock eventually gets past the wait.
C22_NoDeadlock ==
    /\ []LockDiscipline
    /\ \A t \in Threads : WaitsForLock(t) ~> ~WaitsForLock(t)

\* an execution was left through a raised exception and the other request then
\* took the same lock
C22_Witness ==
    \E r1, r2 \in Reqs :
        /\ r1 # r2
        /\ Done(M(r1)) /\ handler[M(r1)].code = 500 /\ handler[M(r1)].sends > 0
        /\ handler[M(r1)].body = handler[M(r1)].error_msg
        /\ mint_lock = r2 /\ InExecution(M(r2))

\* the identifier of the token that the confirmed mint in slot i minted: the
\* contract numbers the tokens in the order in which their mints are confirmed
MintedId(i) ==
    Cardinality({j \in 1..i : slots[j].kind = "mint" /\ outcome[j] = "success"})

\* C23: the tokenId of a success answer of /api/mint is the identifier of the
\* token that the confirmed mint transaction of the answer minted.
C23_ReportedTokenIdIsMinted ==
    \A r \in Reqs :
        (Done(M(r)) /\ handler[M(r)].code = 200)
          => \E i \in 1..Mined :
               /\ TxKey(slots[i]) = handler[M(r)].tx
               /\ outcome[i] = "success"
               /\ MintedId(i) = handler[M(r)].tokenId

====
